---- MODULE Spec2Model ----
(***************************************************************************)
(* Credential resolution of reqsign: the AWS CredentialLoader (cache slot, *)
(* provider chain env -> profile -> web identity with retry), the AWS      *)
(* IMDSv2Loader (session-token sub-cache, credential discovery), the Azure *)
(* ImdsManagedIdentityCredential builder and the Azure storage Loader.     *)
(*                                                                         *)
(* Option<T> is a sequence of length 0 (None) or 1 (Some).                 *)
(***************************************************************************)
EXTENDS Integers, Sequences, FiniteSets, TLC

None == << >>
Some(x) == << x >>
Opt(S) == {None} \cup {Some(x) : x \in S}

\* ---------------------------------------------------------------- bounds
\* Largest value of the clock of the AWS CredentialLoader specification.
MaxTime == 1

\* Largest value of the clock (seconds) of the IMDSv2Loader specification.
ImdsMaxNow == 42001

\* ------------------------------------------------------------- constants
\* x-aws-ec2-metadata-token-ttl-seconds, and the margin taken off it
ttl_seconds == 21600
safety_margin == 600
\* ExponentialBackoff::default().with_max_times(4)
max_times == 4
\* backon's default minimal delay (seconds) and factor
min_delay == 1
factor == 2

\* The callers of load(); Spec runs one of them, the racing specifications both.
Callers == {1, 2}

VARIABLES
    \* ---- AWS CredentialLoader
    credential,          \* Arc<RwLock<Option<Credential>>>
    disable_env,
    disable_profile,
    disable_assume_role_with_web_identity,
    config_loader,       \* ConfigLoader: the fields its accessors return
    environ,             \* process environment: AWS_ACCESS_KEY_ID, ...
    profile_files,       \* shared-credentials file and config file
    token_file,          \* content of the web identity token file, None = unreadable
    now,                 \* the clock
    pc,                  \* per caller: where it is inside load()
    ret,                 \* per caller: what its last load() returned
    found,               \* per caller: the credential the chain resolved
    chain,               \* per caller: providers invoked by this load, in order
    outs,                \* per caller: what each returned provider returned
    retry,               \* per caller: number of retry.next() calls answered Some
    io,                  \* per caller: I/O done by this load
    sent,                \* per caller: WebIdentityToken of its STS request in flight
    warned,              \* per caller: the exhaustion warning was logged
    \* ---- AWS IMDSv2Loader
    token,               \* Arc<Mutex<(String, DateTime)>>
    token_put_at,        \* when the PUT that fetched the stored token was issued
    ipc,                 \* per caller: where it is inside IMDSv2Loader::load
    ires,                \* per caller: what its last load returned
    itoken,              \* per caller: the session token its requests carry
    ireqs,               \* per caller: requests issued by this load
    put_at,              \* per caller: when this load issued its PUT
    iresp,               \* per caller: the credential response it received
    \* ---- Azure ImdsManagedIdentityCredential
    endpoint,
    secret,
    object_id,
    client_id,
    msi_res_id,
    last_selector,       \* the last with_object_id / with_client_id / with_identity call
    mpc,                 \* where get_token is: "idle", "sent", "done"
    mreq,                \* the request get_token built
    mres,                \* what get_token returned
    mrsp,                \* the response the last get_token received
    \* ---- Azure storage Loader
    az_config,           \* Config: sas_token, account_name, account_key
    az_credential,       \* Arc<Mutex<Option<Credential>>>
    apc,                 \* per caller: where it is inside load / load_with_imds
    aop,                 \* per caller: the operation it called
    ahit,                \* per caller: the call was answered from the slot
    aret,                \* per caller: what the operation returned
    areqs,               \* per caller: network requests of this call
    \* ---- lock guards
    held                 \* per caller: the locks whose guard it holds

awsVars == << credential, disable_env, disable_profile,
              disable_assume_role_with_web_identity, config_loader, environ,
              profile_files, token_file, now, pc, ret, found, chain, outs,
              retry, io, sent, warned >>

imdsVars == << token, token_put_at, ipc, ires, itoken, ireqs, put_at, iresp >>

msiVars == << endpoint, secret, object_id, client_id, msi_res_id, last_selector,
              mpc, mreq, mres, mrsp >>

azVars == << az_config, az_credential, apc, aop, ahit, aret, areqs >>

vars == << awsVars, imdsVars, msiVars, azVars, held >>

\* ------------------------------------------------------------ Credential
Credential(ak, sk, st, exp) ==
    [access_key |-> ak, secret_key |-> sk, security_token |-> st, expires_in |-> exp]

\* Credential::is_valid: no expiry, or expiry later than now.
is_valid(c, t) == c.expires_in = None \/ c.expires_in[1] > t

\* Credential::check: every field of an STS credential is non-empty.
check(c) ==
    /\ c.access_key # ""
    /\ c.secret_key # ""
    /\ c.security_token # None /\ c.security_token[1] # ""

\* ----------------------------------------------------------- ConfigLoader
DefaultConfigLoader ==
    [access_key_id |-> None, secret_access_key |-> None, session_token |-> None,
     web_identity_token_file |-> None, role_arn |-> None]

\* a field of the source overrides the loader's when the source has it
Override(old, new) == IF new # None THEN new ELSE old

\* ConfigLoader::load_via_env: copy the variables the environment defines.
ConfigLoader_load_via_env(cl, env) ==
    [cl EXCEPT !.access_key_id = Override(@, env.access_key_id),
               !.secret_access_key = Override(@, env.secret_access_key),
               !.session_token = Override(@, env.session_token)]

\* One profile file applied to the loader.
ApplyProfile(cl, file) ==
    IF file = None THEN cl
    ELSE [cl EXCEPT !.access_key_id = Some(file[1].access_key_id),
                    !.secret_access_key = Some(file[1].secret_access_key)]

\* ConfigLoader::load_via_profile: config file first, shared-credentials file
\* after it, so that the shared-credentials file's values win.
ConfigLoader_load_via_profile(cl, files) ==
    ApplyProfile(ApplyProfile(cl, files.config), files.shared)

\* ------------------------------------------------------------- inputs
Environs ==
    {e \in [access_key_id : Opt({"env_ak"}), secret_access_key : Opt({"env_sk"}),
            session_token : Opt({"env_st"})] :
        e.session_token # None => e.secret_access_key # None}

ProfileFiles ==
    [shared : Opt({[access_key_id |-> "shared_access_key_id",
                    secret_access_key |-> "shared_secret_access_key"]}),
     config : Opt({[access_key_id |-> "config_access_key_id",
                    secret_access_key |-> "config_secret_access_key"]})]

TokenFiles == Opt({"tok1", "tok2"})

\* ConfigLoaders handed to with_config_loader: the web identity settings.
ConfigLoaders ==
    {[DefaultConfigLoader EXCEPT !.web_identity_token_file = f, !.role_arn = r] :
        f \in Opt({"/token"}), r \in Opt({"role"})}

\* Credentials handed to with_credential: one that never expires and one
\* that expires at time 1.
PresetCredentials ==
    {Credential("preset_ak", "preset_sk", None, e) : e \in Opt({1})}

\* sleeps counts the sleeps, delay is the duration of the one under way and
\* status the status of the STS response the last attempt received
NoIo == [env |-> 0, profile |-> 0, attempts |-> 0, reads |-> 0, reqs |-> 0,
         sleeps |-> 0, delay |-> 0, status |-> None]

\* CredentialLoader::default() and no load() yet.
DefaultLoader ==
    /\ credential = None
    /\ disable_env = FALSE
    /\ disable_profile = FALSE
    /\ disable_assume_role_with_web_identity = FALSE
    /\ config_loader = DefaultConfigLoader
    /\ now = 0
    /\ pc = [p \in Callers |-> "idle"]
    /\ ret = [p \in Callers |-> None]
    /\ found = [p \in Callers |-> None]
    /\ chain = [p \in Callers |-> << >>]
    /\ outs = [p \in Callers |-> << >>]
    /\ retry = [p \in Callers |-> 0]
    /\ io = [p \in Callers |-> NoIo]
    /\ sent = [p \in Callers |-> None]
    /\ warned = [p \in Callers |-> FALSE]

InitAws ==
    /\ DefaultLoader
    /\ environ \in Environs
    /\ profile_files \in ProfileFiles
    /\ token_file \in TokenFiles

\* the CredentialLoader left unused, in an empty environment
IdleAws ==
    /\ DefaultLoader
    /\ environ = [access_key_id |-> None, secret_access_key |-> None,
                  session_token |-> None]
    /\ profile_files = [shared |-> None, config |-> None]
    /\ token_file = None

\* ------------------------------------------------------ IMDSv2Loader state
\* The sub-cache before the first PUT: an empty token that is expired.
NoToken == [value |-> "", expires_in |-> 0]

NoReqs == [put |-> 0, list |-> 0, get |-> 0]

NoResult == [tag |-> "none", cred |-> None, error |-> "", code |-> "", message |-> ""]

IdleImds ==
    /\ token = NoToken
    /\ token_put_at = 0
    /\ ipc = [p \in Callers |-> "idle"]
    /\ ires = [p \in Callers |-> NoResult]
    /\ itoken = [p \in Callers |-> ""]
    /\ ireqs = [p \in Callers |-> NoReqs]
    /\ put_at = [p \in Callers |-> 0]
    /\ iresp = [p \in Callers |-> None]

\* ImdsManagedIdentityCredential::new()
IdleMsi ==
    /\ endpoint = None
    /\ secret = None
    /\ object_id = None
    /\ client_id = None
    /\ msi_res_id = None
    /\ last_selector = None
    /\ mpc = "idle"
    /\ mreq = None
    /\ mres = NoResult
    /\ mrsp = None

AzConfigs ==
    [sas_token : Opt({"sas"}), account_name : Opt({"name"}),
     account_key : Opt({"key"})]

\* Loader::new(config), nothing called yet
NewLoader ==
    /\ az_credential = None
    /\ apc = [p \in Callers |-> "idle"]
    /\ aop = [p \in Callers |-> ""]
    /\ ahit = [p \in Callers |-> FALSE]
    /\ aret = [p \in Callers |-> NoResult]
    /\ areqs = [p \in Callers |-> 0]

IdleAz ==
    /\ az_config = [sas_token |-> None, account_name |-> None, account_key |-> None]
    /\ NewLoader

\* nobody holds a lock
NoGuards == held = [p \in Callers |-> {}]

Init == InitAws /\ IdleImds /\ IdleMsi /\ IdleAz /\ NoGuards

\* ------------------------------------------------------------ lock guards
\* A guard is the lock it holds and how long it lives: "statement" for a
\* temporary, dropped at the end of the statement that took the lock, and
\* "body" for a guard bound by let, dropped when the function or closure
\* body it is bound in returns.
Guard(lock, scope) == [lock |-> lock, scope |-> scope]

\* a read guard bound by let at the top of load()
load_read_guard_bound == Guard("credential.read", "body")

\* match self.credential.read().expect(..).clone() { .. }
load_read_guard == Guard("credential.read", "statement")

\* let mut lock = self.credential.write().expect(..), in the .map closure
store_write_guard == Guard("credential.write", "body")

\* *self.credential.write().expect(..) = Some(cred)
with_credential_guard == Guard("credential.write", "statement")

\* let (token, expires_in) = self.token.lock().expect(..).clone()
token_read_guard == Guard("token", "statement")

\* *self.token.lock().expect(..) = (ec2_token.clone(), expires_in)
token_write_guard == Guard("token", "statement")

\* if let Some(cred) = self.credential.lock().expect(..).clone() { .. }
az_check_guard == Guard("az_credential", "statement")

\* let mut lock = self.credential.lock().expect(..)
az_store_guard == Guard("az_credential", "body")

\* the locks that cannot be taken while this one is held
Conflicts(lock) ==
    IF lock = "credential.read" THEN {"credential.write"}
    ELSE IF lock = "credential.write" THEN {"credential.read", "credential.write"}
    ELSE {lock}

\* taking the lock does not block: no guard in conflict with it is alive
Free(lock) == \A q \in Callers : held[q] \cap Conflicts(lock) = {}

\* A step of caller p that takes the guards gs: it waits for their locks,
\* and when it ends p holds nothing if p's function returned, and otherwise
\* what it held plus the guards of gs that live to the end of the body.
Locks(p, gs, returned) ==
    /\ \A g \in gs : Free(g.lock)
    /\ held' = [held EXCEPT ![p] =
                    IF returned THEN {}
                    ELSE @ \cup {g.lock : g \in {x \in gs : x.scope = "body"}}]

\* no load() is running: the builder methods take the loader by value
Quiescent == \A p \in Callers : pc[p] \in {"idle", "done"}

\* the state of the other loaders, which the CredentialLoader does not touch
otherThanAws == << imdsVars, msiVars, azVars >>

\* --------------------------------------------------- builder methods
\* The builder methods take the loader by value and return a new one: what
\* the callers observed of the old one is forgotten.
Fresh ==
    /\ Quiescent
    /\ pc' = [p \in Callers |-> "idle"]
    /\ ret' = [p \in Callers |-> None]
    /\ found' = [p \in Callers |-> None]
    /\ chain' = [p \in Callers |-> << >>]
    /\ outs' = [p \in Callers |-> << >>]
    /\ retry' = [p \in Callers |-> 0]
    /\ io' = [p \in Callers |-> NoIo]
    /\ sent' = [p \in Callers |-> None]
    /\ warned' = [p \in Callers |-> FALSE]

with_disable_env ==
    /\ UNCHANGED otherThanAws
    /\ Fresh
    /\ ~disable_env
    /\ disable_env' = TRUE
    /\ UNCHANGED << credential, disable_profile, disable_assume_role_with_web_identity,
                    config_loader, environ, profile_files, token_file, now >>
    /\ UNCHANGED held

with_disable_profile ==
    /\ UNCHANGED otherThanAws
    /\ Fresh
    /\ ~disable_profile
    /\ disable_profile' = TRUE
    /\ UNCHANGED << credential, disable_env, disable_assume_role_with_web_identity,
                    config_loader, environ, profile_files, token_file, now >>
    /\ UNCHANGED held

with_disable_assume_role_with_web_identity ==
    /\ UNCHANGED otherThanAws
    /\ Fresh
    /\ ~disable_assume_role_with_web_identity
    /\ disable_assume_role_with_web_identity' = TRUE
    /\ UNCHANGED << credential, disable_env, disable_profile, config_loader,
                    environ, profile_files, token_file, now >>
    /\ UNCHANGED held

with_credential(cred) ==
    /\ UNCHANGED otherThanAws
    /\ Fresh
    /\ credential' = Some(cred)
    /\ UNCHANGED << disable_env, disable_profile,
                    disable_assume_role_with_web_identity, config_loader,
                    environ, profile_files, token_file, now >>
    /\ Free(with_credential_guard.lock)
    /\ UNCHANGED held

with_config_loader(cfg) ==
    /\ UNCHANGED otherThanAws
    /\ Fresh
    /\ config_loader' = cfg
    /\ UNCHANGED << credential, disable_env, disable_profile,
                    disable_assume_role_with_web_identity, environ,
                    profile_files, token_file, now >>
    /\ UNCHANGED held

\* ------------------------------------------------------------------ load
\* a cache check that never hits
CacheHitNever(slot, t) == FALSE

\* The match of load(): Some(cred) if cred.is_valid().
CacheHit(slot, t) == slot # None /\ is_valid(slot[1], t)

\* a credential built without set_security_token
CredentialOfWithoutToken(cl) ==
    IF cl.access_key_id # None /\ cl.secret_access_key # None
    THEN Some(Credential(cl.access_key_id[1], cl.secret_access_key[1], None, None))
    ELSE None

\* if let (Some(ak), Some(sk)) = (access_key_id(), secret_access_key())
CredentialOf(cl) ==
    IF cl.access_key_id # None /\ cl.secret_access_key # None
    THEN Some(Credential(cl.access_key_id[1], cl.secret_access_key[1],
                         cl.session_token, None))
    ELSE None

\* load(): the cache check, and on a miss the start of the provider chain.
load(p) ==
    /\ UNCHANGED otherThanAws
    /\ pc[p] \in {"idle", "done"}
    /\ chain' = [chain EXCEPT ![p] = << >>]
    /\ outs' = [outs EXCEPT ![p] = << >>]
    /\ io' = [io EXCEPT ![p] = NoIo]
    /\ sent' = [sent EXCEPT ![p] = None]
    /\ warned' = [warned EXCEPT ![p] = FALSE]
    /\ retry' = [retry EXCEPT ![p] = 0]
    /\ found' = [found EXCEPT ![p] = None]
    /\ IF CacheHit(credential, now)
       THEN /\ ret' = [ret EXCEPT ![p] = credential]
            /\ pc' = [pc EXCEPT ![p] = "done"]
       ELSE /\ ret' = [ret EXCEPT ![p] = None]
            /\ pc' = [pc EXCEPT ![p] = "env"]
    /\ UNCHANGED << credential, disable_env, disable_profile,
                    disable_assume_role_with_web_identity, config_loader,
                    environ, profile_files, token_file, now >>
    /\ Locks(p, {load_read_guard}, pc'[p] = "done")

\* a chain that goes on to the next provider after a Some
ProviderReturnsKeepGoing(p, res, next) ==
    /\ outs' = [outs EXCEPT ![p] = Append(@, res)]
    /\ found' = IF res # None THEN [found EXCEPT ![p] = res] ELSE found
    /\ IF next = "done" /\ (res # None \/ found[p] # None)
       THEN /\ pc' = [pc EXCEPT ![p] = "store"]
            /\ ret' = ret
       ELSE /\ pc' = [pc EXCEPT ![p] = next]
            /\ ret' = IF next = "done" THEN [ret EXCEPT ![p] = None] ELSE ret

\* a chain that writes its result to the slot whatever it is
ProviderReturnsStoreAlways(p, res, next) ==
    /\ outs' = [outs EXCEPT ![p] = Append(@, res)]
    /\ IF res # None \/ next = "done"
       THEN /\ found' = [found EXCEPT ![p] = res]
            /\ pc' = [pc EXCEPT ![p] = "store"]
            /\ ret' = ret
       ELSE /\ found' = found
            /\ pc' = [pc EXCEPT ![p] = next]
            /\ ret' = ret

\* What a provider's return does to the chain: Some goes to the .map closure,
\* None to the next provider (or_else), and after the last one out of load().
ProviderReturns(p, res, next) ==
    /\ outs' = [outs EXCEPT ![p] = Append(@, res)]
    /\ IF res # None
       THEN /\ found' = [found EXCEPT ![p] = res]
            /\ pc' = [pc EXCEPT ![p] = "store"]
            /\ ret' = ret
       ELSE /\ found' = found
            /\ pc' = [pc EXCEPT ![p] = next]
            /\ ret' = IF next = "done" THEN [ret EXCEPT ![p] = None] ELSE ret

load_via_env(p) ==
    /\ UNCHANGED otherThanAws
    /\ pc[p] = "env"
    /\ chain' = [chain EXCEPT ![p] = Append(@, "env")]
    /\ IF disable_env
       THEN /\ UNCHANGED << config_loader, io >>
            /\ ProviderReturns(p, None, "profile")
       ELSE /\ config_loader' = ConfigLoader_load_via_env(config_loader, environ)
            /\ io' = [io EXCEPT ![p].env = @ + 1]
            /\ ProviderReturns(p, CredentialOf(config_loader'), "profile")
    /\ UNCHANGED << credential, disable_env, disable_profile,
                    disable_assume_role_with_web_identity, environ,
                    profile_files, token_file, now, retry, sent, warned >>
    /\ Locks(p, {}, pc'[p] = "done")

\* a profile provider that tests the environment provider's flag
load_via_profile_wrong_flag(p) ==
    /\ UNCHANGED otherThanAws
    /\ pc[p] = "profile"
    /\ chain' = [chain EXCEPT ![p] = Append(@, "profile")]
    /\ IF disable_env
       THEN /\ UNCHANGED << config_loader, io >>
            /\ ProviderReturns(p, None, "web")
       ELSE /\ config_loader' = ConfigLoader_load_via_profile(config_loader, profile_files)
            /\ io' = [io EXCEPT ![p].profile = @ + 1]
            /\ ProviderReturns(p, CredentialOf(config_loader'), "web")
    /\ UNCHANGED << credential, disable_env, disable_profile,
                    disable_assume_role_with_web_identity, environ,
                    profile_files, token_file, now, retry, sent, warned >>
    /\ Locks(p, {}, pc'[p] = "done")

\* a profile provider that asks the ConfigLoader for the environment again
load_via_profile_reads_env(p) ==
    /\ UNCHANGED otherThanAws
    /\ pc[p] = "profile"
    /\ chain' = [chain EXCEPT ![p] = Append(@, "profile")]
    /\ IF disable_profile
       THEN /\ UNCHANGED << config_loader, io >>
            /\ ProviderReturns(p, None, "web")
       ELSE /\ config_loader' = ConfigLoader_load_via_env(config_loader, environ)
            /\ io' = [io EXCEPT ![p].profile = @ + 1]
            /\ ProviderReturns(p, CredentialOf(config_loader'), "web")
    /\ UNCHANGED << credential, disable_env, disable_profile,
                    disable_assume_role_with_web_identity, environ,
                    profile_files, token_file, now, retry, sent, warned >>
    /\ Locks(p, {}, pc'[p] = "done")

load_via_profile(p) ==
    /\ UNCHANGED otherThanAws
    /\ pc[p] = "profile"
    /\ chain' = [chain EXCEPT ![p] = Append(@, "profile")]
    /\ IF disable_profile
       THEN /\ UNCHANGED << config_loader, io >>
            /\ ProviderReturns(p, None, "web")
       ELSE /\ config_loader' = ConfigLoader_load_via_profile(config_loader, profile_files)
            /\ io' = [io EXCEPT ![p].profile = @ + 1]
            /\ ProviderReturns(p, CredentialOf(config_loader'), "web")
    /\ UNCHANGED << credential, disable_env, disable_profile,
                    disable_assume_role_with_web_identity, environ,
                    profile_files, token_file, now, retry, sent, warned >>
    /\ Locks(p, {}, pc'[p] = "done")

\* load_via_assume_role_with_web_identity, up to the loop: the flag and the
\* fresh ExponentialBackoff.
load_via_assume_role_with_web_identity(p) ==
    /\ UNCHANGED otherThanAws
    /\ pc[p] = "web"
    /\ chain' = [chain EXCEPT ![p] = Append(@, "web")]
    /\ retry' = [retry EXCEPT ![p] = 0]
    /\ IF disable_assume_role_with_web_identity
       THEN ProviderReturns(p, None, "done")
       ELSE /\ pc' = [pc EXCEPT ![p] = "inner"]
            /\ UNCHANGED << outs, found, ret >>
    /\ UNCHANGED << credential, disable_env, disable_profile,
                    disable_assume_role_with_web_identity, config_loader,
                    environ, profile_files, token_file, now, io, sent, warned >>
    /\ Locks(p, {}, pc'[p] = "done")

\* ExponentialBackoff::next after n delays were handed out.
Pow(b, n) == IF n = 0 THEN 1 ELSE IF n = 1 THEN b ELSE IF n = 2 THEN b * b
             ELSE IF n = 3 THEN b * b * b ELSE b * b * b * b

\* a backoff that hands out one delay too many
backoff_next_one_more(n) ==
    IF n <= max_times THEN Some(min_delay * Pow(factor, n)) ELSE None

\* a backoff that never multiplies its delay
backoff_next_constant(n) == IF n < max_times THEN Some(min_delay) ELSE None

\* a backoff built without with_max_times
backoff_next_forever(n) == Some(min_delay * Pow(factor, n))

backoff_next(n) == IF n < max_times THEN Some(min_delay * Pow(factor, n)) ELSE None

\* with_jitter: the delay plus a random part below the delay.
Jitters(dur) == {0, dur - 1}

\* Err(e) => match retry.next(): sleep and go round, or warn and return None.
OnErr(p, io1) ==
    LET nxt == backoff_next(retry[p]) IN
    IF nxt # None
    THEN /\ \E j \in Jitters(nxt[1]) :
                io' = [io1 EXCEPT ![p].sleeps = @ + 1, ![p].delay = nxt[1] + j]
         /\ retry' = [retry EXCEPT ![p] = @ + 1]
         /\ pc' = [pc EXCEPT ![p] = "sleep"]
         /\ UNCHANGED << outs, found, ret, warned >>
    ELSE /\ io' = io1
         /\ retry' = retry
         /\ warned' = [warned EXCEPT ![p] = TRUE]
         /\ ProviderReturns(p, None, "done")

\* sleep(dur) returns and the loop continues.
sleep(p) ==
    /\ UNCHANGED otherThanAws
    /\ pc[p] = "sleep"
    /\ pc' = [pc EXCEPT ![p] = "inner"]
    /\ io' = [io EXCEPT ![p].delay = 0, ![p].status = None]
    /\ UNCHANGED << credential, disable_env, disable_profile,
                    disable_assume_role_with_web_identity, config_loader,
                    environ, profile_files, token_file, now, ret, found,
                    chain, outs, retry, sent, warned >>
    /\ Locks(p, {}, pc'[p] = "done")

\* a configuration that names only one of the two
web_identity_configured_either(cl) ==
    cl.web_identity_token_file # None \/ cl.role_arn # None

\* (Some(token_file), Some(role_arn)) of the configuration match
web_identity_configured(cl) ==
    cl.web_identity_token_file # None /\ cl.role_arn # None

\* load_via_assume_role_with_web_identity_inner: the configuration match.
inner_config(p) ==
    /\ UNCHANGED otherThanAws
    /\ pc[p] = "inner"
    /\ io' = [io EXCEPT ![p].attempts = @ + 1]
    /\ IF web_identity_configured(config_loader)
       THEN /\ pc' = [pc EXCEPT ![p] = "read"]
            /\ UNCHANGED << outs, found, ret >>
       ELSE ProviderReturns(p, None, "done")
    /\ UNCHANGED << credential, disable_env, disable_profile,
                    disable_assume_role_with_web_identity, config_loader,
                    environ, profile_files, token_file, now, chain, retry,
                    sent, warned >>
    /\ Locks(p, {}, pc'[p] = "done")

\* an attempt that reads the token file once per load and sends the text it
\* kept (in found, which the loop does not use) on every later attempt
inner_read_cached(p) ==
    /\ UNCHANGED otherThanAws
    /\ pc[p] = "read"
    /\ IF found[p] # None
       THEN /\ io' = [io EXCEPT ![p].reqs = @ + 1]
            /\ sent' = [sent EXCEPT ![p] = found[p]]
            /\ pc' = [pc EXCEPT ![p] = "call"]
            /\ UNCHANGED << outs, found, ret, retry, warned >>
       ELSE LET io1 == [io EXCEPT ![p].reads = @ + 1] IN
            IF token_file = None
            THEN /\ OnErr(p, io1)
                 /\ sent' = sent
            ELSE /\ io' = [io1 EXCEPT ![p].reqs = @ + 1]
                 /\ sent' = [sent EXCEPT ![p] = token_file]
                 /\ found' = [found EXCEPT ![p] = token_file]
                 /\ pc' = [pc EXCEPT ![p] = "call"]
                 /\ UNCHANGED << outs, ret, retry, warned >>
    /\ UNCHANGED << credential, disable_env, disable_profile,
                    disable_assume_role_with_web_identity, config_loader,
                    environ, profile_files, token_file, now, chain >>
    /\ Locks(p, {}, pc'[p] = "done")

\* fs::read_to_string(&token_file)?, then the request is built and sent.
inner_read(p) ==
    /\ UNCHANGED otherThanAws
    /\ pc[p] = "read"
    /\ LET io1 == [io EXCEPT ![p].reads = @ + 1] IN
       IF token_file = None
       THEN /\ OnErr(p, io1)
            /\ sent' = sent
       ELSE /\ io' = [io1 EXCEPT ![p].reqs = @ + 1]
            /\ sent' = [sent EXCEPT ![p] = token_file]
            /\ pc' = [pc EXCEPT ![p] = "call"]
            /\ UNCHANGED << outs, found, ret, retry, warned >>
    /\ UNCHANGED << credential, disable_env, disable_profile,
                    disable_assume_role_with_web_identity, config_loader,
                    environ, profile_files, token_file, now, chain >>
    /\ Locks(p, {}, pc'[p] = "done")

\* crate::time::parse_rfc3339 on the text of a timestamp
parse_rfc3339(text) == IF text.wellformed THEN Some(text.t) ELSE None

Rfc3339(t) == [wellformed |-> TRUE, t |-> t]
Garbage == [wellformed |-> FALSE, t |-> 0]

\* What the STS endpoint can answer: status 0 stands for a transport error;
\* body None for a body that is not the AssumeRoleWithWebIdentity XML.
StsBodies ==
    {Some([access_key_id |-> "sts_ak", secret_access_key |-> "sts_sk",
           session_token |-> "sts_st", expiration |-> Rfc3339(e)]) :
        e \in {1, MaxTime + 1}}
    \cup {Some([access_key_id |-> "", secret_access_key |-> "sts_sk",
                session_token |-> "sts_st", expiration |-> Rfc3339(MaxTime + 1)]),
          Some([access_key_id |-> "sts_ak", secret_access_key |-> "sts_sk",
                session_token |-> "sts_st", expiration |-> Garbage]),
          None}

StsResponses ==
    {[status |-> s, body |-> b] : s \in {200, 204}, b \in StsBodies}
    \cup {[status |-> s, body |-> None] : s \in {0, 403}}

\* req.call()? fails on a transport error and on a 4xx/5xx status.
call_ok(r) == r.status >= 200 /\ r.status < 400

\* a status test that lets every 2xx through
status_ok_any_2xx(r) == r.status >= 200 /\ r.status < 300

\* resp.status() != http::StatusCode::OK
status_ok(r) == r.status = 200

\* an inner that returns the credential without cred.check()
inner_result_unchecked(r) ==
    IF ~call_ok(r) \/ ~status_ok(r) \/ r.body = None THEN None
    ELSE LET b == r.body[1]
             exp == parse_rfc3339(b.expiration)
             cred == Credential(b.access_key_id, b.secret_access_key,
                                Some(b.session_token), exp)
         IN IF exp = None THEN None ELSE Some(cred)

\* The rest of inner after the response: Some(cred) for Ok(Some(cred)), None for Err.
inner_result(r) ==
    IF ~call_ok(r) \/ ~status_ok(r) \/ r.body = None THEN None
    ELSE LET b == r.body[1]
             exp == parse_rfc3339(b.expiration)
             cred == Credential(b.access_key_id, b.secret_access_key,
                                Some(b.session_token), exp)
         IN IF exp = None \/ ~check(cred) THEN None ELSE Some(cred)

inner_response(p, r) ==
    /\ UNCHANGED otherThanAws
    /\ pc[p] = "call"
    /\ LET res == inner_result(r)
           io1 == [io EXCEPT ![p].status = Some(r.status)]
       IN IF res # None
          THEN /\ ProviderReturns(p, res, "done")
               /\ io' = io1
               /\ UNCHANGED << retry, warned >>
          ELSE OnErr(p, io1)
    /\ sent' = [sent EXCEPT ![p] = None]
    /\ UNCHANGED << credential, disable_env, disable_profile,
                    disable_assume_role_with_web_identity, config_loader,
                    environ, profile_files, token_file, now, chain >>
    /\ Locks(p, {}, pc'[p] = "done")

\* a .map closure that looks at the slot again and, when another caller
\* filled it meanwhile, keeps the slot and returns what it holds
store_unless_filled(p) ==
    /\ UNCHANGED otherThanAws
    /\ pc[p] = "store"
    /\ IF CacheHit(credential, now)
       THEN /\ credential' = credential
            /\ ret' = [ret EXCEPT ![p] = credential]
       ELSE /\ credential' = found[p]
            /\ ret' = [ret EXCEPT ![p] = found[p]]
    /\ pc' = [pc EXCEPT ![p] = "done"]
    /\ UNCHANGED << disable_env, disable_profile,
                    disable_assume_role_with_web_identity, config_loader,
                    environ, profile_files, token_file, now, found, chain,
                    outs, retry, io, sent, warned >>
    /\ Locks(p, {store_write_guard}, pc'[p] = "done")

\* The .map closure of load(): replace the slot and return the credential.
store(p) ==
    /\ UNCHANGED otherThanAws
    /\ pc[p] = "store"
    /\ credential' = found[p]
    /\ ret' = [ret EXCEPT ![p] = found[p]]
    /\ pc' = [pc EXCEPT ![p] = "done"]
    /\ UNCHANGED << disable_env, disable_profile,
                    disable_assume_role_with_web_identity, config_loader,
                    environ, profile_files, token_file, now, found, chain,
                    outs, retry, io, sent, warned >>
    /\ Locks(p, {store_write_guard}, pc'[p] = "done")

\* ----------------------------------------------------------- environment
Tick ==
    /\ UNCHANGED otherThanAws
    /\ now < MaxTime
    /\ now' = now + 1
    /\ UNCHANGED << credential, disable_env, disable_profile,
                    disable_assume_role_with_web_identity, config_loader,
                    environ, profile_files, token_file, pc, ret, found,
                    chain, outs, retry, io, sent, warned >>
    /\ UNCHANGED held

\* The token file is rotated, removed or restored by its owner. Only a web
\* identity attempt reads the file, so only changes made while a caller is
\* inside that provider are modelled; the file of the first attempt is any.
RotateToken(f) ==
    /\ UNCHANGED otherThanAws
    /\ \E p \in Callers : pc[p] \in {"inner", "read", "call", "sleep"}
    /\ f # token_file
    /\ token_file' = f
    /\ UNCHANGED << credential, disable_env, disable_profile,
                    disable_assume_role_with_web_identity, config_loader,
                    environ, profile_files, now, pc, ret, found, chain, outs,
                    retry, io, sent, warned >>
    /\ UNCHANGED held

LoadStep(p) ==
    \/ load(p)
    \/ load_via_env(p)
    \/ load_via_profile(p)
    \/ load_via_assume_role_with_web_identity(p)
    \/ inner_config(p)
    \/ inner_read(p)
    \/ \E r \in StsResponses : inner_response(p, r)
    \/ sleep(p)
    \/ store(p)

Builder ==
    \/ with_disable_env
    \/ with_disable_profile
    \/ with_disable_assume_role_with_web_identity
    \/ \E c \in PresetCredentials : with_credential(c)
    \/ \E cfg \in ConfigLoaders : with_config_loader(cfg)

Next ==
    \/ Builder
    \/ LoadStep(1)
    \/ Tick
    \/ \E f \in TokenFiles : RotateToken(f)

Spec == Init /\ [][Next]_vars

\* ====================================================================
\* Two callers on one CredentialLoader
\* ====================================================================
\* the configuration the racing loader is built with
RaceConfigLoader ==
    [DefaultConfigLoader EXCEPT !.web_identity_token_file = Some("/token"),
                                !.role_arn = Some("role")]

\* CredentialLoader::default().with_config_loader(cfg), with or without
\* with_credential(preset); no profile file.
WebLoader ==
    /\ credential \in Opt(PresetCredentials)
    /\ disable_env = FALSE
    /\ disable_profile = FALSE
    /\ disable_assume_role_with_web_identity = FALSE
    /\ config_loader = RaceConfigLoader
    /\ now = 0
    /\ pc = [p \in Callers |-> "idle"]
    /\ ret = [p \in Callers |-> None]
    /\ found = [p \in Callers |-> None]
    /\ chain = [p \in Callers |-> << >>]
    /\ outs = [p \in Callers |-> << >>]
    /\ retry = [p \in Callers |-> 0]
    /\ io = [p \in Callers |-> NoIo]
    /\ sent = [p \in Callers |-> None]
    /\ warned = [p \in Callers |-> FALSE]
    /\ environ \in Environs
    /\ profile_files = [shared |-> None, config |-> None]

\* that loader shared by two callers, with a readable token file
InitRaceAws == WebLoader /\ token_file = Some("tok1")

NextRace ==
    \/ \E p \in Callers : LoadStep(p)
    \/ Tick

InitRace == InitRaceAws /\ IdleImds /\ IdleMsi /\ IdleAz /\ NoGuards

SpecRace == InitRace /\ [][NextRace]_vars

\* ====================================================================
\* One caller on a loader with web identity configured
\* ====================================================================
\* The token file is any, and is rotated, removed or restored meanwhile.
InitWeb ==
    /\ WebLoader
    /\ token_file \in TokenFiles
    /\ IdleImds /\ IdleMsi /\ IdleAz /\ NoGuards

NextWeb ==
    \/ LoadStep(1)
    \/ Tick
    \/ \E f \in TokenFiles : RotateToken(f)

SpecWeb == InitWeb /\ [][NextWeb]_vars

\* load() is a synchronous call: the file read, the request and the sleep
\* it waits for return, so the caller's next step is eventually taken.
SpecWebLive == SpecWeb /\ WF_vars(LoadStep(1))

\* ====================================================================
\* AWS IMDSv2Loader
\* ====================================================================
otherThanImds == << credential, disable_env, disable_profile,
                    disable_assume_role_with_web_identity, config_loader,
                    environ, profile_files, token_file, pc, ret, found,
                    chain, outs, retry, io, sent, warned, msiVars, azVars >>

ImdsCredential(ak, sk, st, exp) ==
    [access_key_id |-> ak, secret_access_key |-> sk, session_token |-> st,
     expires_in |-> exp]

Ok(c) == [tag |-> "Ok", cred |-> c, error |-> "", code |-> "", message |-> ""]
Err(kind, code, message) ==
    [tag |-> "Err", cred |-> None, error |-> kind, code |-> code, message |-> message]

\* What the metadata service can answer; status 0 stands for a transport error.
PutResponses ==
    {[status |-> 0, body |-> ""], [status |-> 403, body |-> "forbidden"],
     [status |-> 200, body |-> "tokA"], [status |-> 200, body |-> "tokB"]}

ListResponses ==
    {[status |-> 0, body |-> ""], [status |-> 404, body |-> "not found"],
     [status |-> 200, body |-> "role"]}

ImdsCodes == {"Success", "AssumeRoleUnauthorizedAccess", "InternalError", ""}

\* The JSON bodies; None is a body that is not JSON. A field the JSON lacks
\* is the empty string (serde default).
ImdsBodies ==
    {Some([access_key_id |-> "imds_ak", secret_access_key |-> "imds_sk",
           token |-> "imds_token", expiration |-> e, code |-> c,
           message |-> "msg"]) :
        e \in {Rfc3339(ImdsMaxNow), Garbage}, c \in ImdsCodes}
    \cup {None}

GetResponses ==
    {[status |-> 0, body |-> None], [status |-> 500, body |-> None]}
    \cup {[status |-> 200, body |-> b] : b \in ImdsBodies}

\* a check that still takes the token at the instant of its expiry
TokenFreshAtExpiry(tok, t) == tok.expires_in >= t

\* if expires_in > now()
TokenFresh(tok, t) == tok.expires_in > t

\* an expiry of ten minutes, as the comment above the computation has it
TokenExpiryTenMinutes(t) == t + safety_margin

\* now() + 21600 s - 600 s
TokenExpiry(t) == t + ttl_seconds - safety_margin

\* IMDSv2Loader::load up to its first request: load_ec2_metadata_token reads
\* the sub-cache and either returns the stored token, after which load sends
\* the role-listing GET, or sends the token PUT.
imds_load(q) ==
    /\ ipc[q] \in {"idle", "done"}
    /\ ires' = [ires EXCEPT ![q] = NoResult]
    /\ iresp' = [iresp EXCEPT ![q] = None]
    /\ IF TokenFresh(token, now)
       THEN /\ itoken' = [itoken EXCEPT ![q] = token.value]
            /\ ireqs' = [ireqs EXCEPT ![q] = [NoReqs EXCEPT !.list = 1]]
            /\ ipc' = [ipc EXCEPT ![q] = "list"]
            /\ put_at' = put_at
       ELSE /\ itoken' = [itoken EXCEPT ![q] = ""]
            /\ ireqs' = [ireqs EXCEPT ![q] = [NoReqs EXCEPT !.put = 1]]
            /\ ipc' = [ipc EXCEPT ![q] = "put"]
            /\ put_at' = [put_at EXCEPT ![q] = now]
    /\ UNCHANGED << token, token_put_at, now >>
    /\ UNCHANGED otherThanImds
    /\ Locks(q, {token_read_guard}, ipc'[q] = "done")

\* load returns Err
imds_fails(q, e) ==
    /\ ires' = [ires EXCEPT ![q] = e]
    /\ ipc' = [ipc EXCEPT ![q] = "done"]

\* The PUT's response: a failure ends load; a 200 stores the token with its
\* self-imposed expiry, and load goes on to the role-listing GET.
put_response(q, r) ==
    /\ ipc[q] = "put"
    /\ IF r.status = 0
       THEN /\ imds_fails(q, Err("transport", "", ""))
            /\ UNCHANGED << token, token_put_at, itoken, ireqs >>
       ELSE IF r.status # 200
       THEN /\ imds_fails(q, Err("request_failed", "", r.body))
            /\ UNCHANGED << token, token_put_at, itoken, ireqs >>
       ELSE /\ token' = [value |-> r.body, expires_in |-> TokenExpiry(now)]
            /\ token_put_at' = put_at[q]
            /\ itoken' = [itoken EXCEPT ![q] = r.body]
            /\ ireqs' = [ireqs EXCEPT ![q].list = @ + 1]
            /\ ipc' = [ipc EXCEPT ![q] = "list"]
            /\ ires' = ires
    /\ UNCHANGED << put_at, iresp, now >>
    /\ UNCHANGED otherThanImds
    /\ Locks(q, IF r.status = 200 THEN {token_write_guard} ELSE {}, ipc'[q] = "done")

\* a role listing that takes the body of any answered request as the profile
list_response_any_status(q, r) ==
    /\ ipc[q] = "list"
    /\ IF r.status = 0
       THEN /\ imds_fails(q, Err("transport", "", ""))
            /\ ireqs' = ireqs
       ELSE /\ ireqs' = [ireqs EXCEPT ![q].get = @ + 1]
            /\ ipc' = [ipc EXCEPT ![q] = "get"]
            /\ ires' = ires
    /\ UNCHANGED << token, token_put_at, itoken, put_at, iresp, now >>
    /\ UNCHANGED otherThanImds
    /\ Locks(q, {}, ipc'[q] = "done")

\* a role listing whose failure throws the stored session token away
list_response_drops_token(q, r) ==
    /\ ipc[q] = "list"
    /\ IF r.status # 200
       THEN /\ imds_fails(q, IF r.status = 0 THEN Err("transport", "", "")
                                ELSE Err("request_failed", "", r.body))
            /\ ireqs' = ireqs
            /\ token' = NoToken
       ELSE /\ ireqs' = [ireqs EXCEPT ![q].get = @ + 1]
            /\ ipc' = [ipc EXCEPT ![q] = "get"]
            /\ ires' = ires
            /\ token' = token
    /\ UNCHANGED << token_put_at, itoken, put_at, iresp, now >>
    /\ UNCHANGED otherThanImds
    /\ Locks(q, {}, ipc'[q] = "done")

\* The role listing's response: the body is the profile name of the next GET.
list_response(q, r) ==
    /\ ipc[q] = "list"
    /\ IF r.status = 0
       THEN /\ imds_fails(q, Err("transport", "", ""))
            /\ ireqs' = ireqs
       ELSE IF r.status # 200
       THEN /\ imds_fails(q, Err("request_failed", "", r.body))
            /\ ireqs' = ireqs
       ELSE /\ ireqs' = [ireqs EXCEPT ![q].get = @ + 1]
            /\ ipc' = [ipc EXCEPT ![q] = "get"]
            /\ ires' = ires
    /\ UNCHANGED << token, token_put_at, itoken, put_at, iresp, now >>
    /\ UNCHANGED otherThanImds
    /\ Locks(q, {}, ipc'[q] = "done")

\* a reading of Code that gives the trust hint for every failure code
credential_result_one_error(r) ==
    IF r.status = 0 THEN Err("transport", "", "")
    ELSE IF r.status # 200 THEN Err("request_failed", "", "")
    ELSE IF r.body = None THEN Err("json", "", "")
    ELSE LET b == r.body[1] IN
         IF b.code # "Success"
         THEN Err("trust_hint", b.code, b.message)
         ELSE LET exp == parse_rfc3339(b.expiration) IN
              IF exp = None THEN Err("rfc3339", "", "")
              ELSE Ok(Some(ImdsCredential(b.access_key_id, b.secret_access_key,
                                          Some(b.token), exp)))

\* What load makes of the credential GET's response.
credential_result(r) ==
    IF r.status = 0 THEN Err("transport", "", "")
    ELSE IF r.status # 200 THEN Err("request_failed", "", "")
    ELSE IF r.body = None THEN Err("json", "", "")
    ELSE LET b == r.body[1] IN
         IF b.code = "AssumeRoleUnauthorizedAccess"
         THEN Err("trust_hint", b.code, b.message)
         ELSE IF b.code # "Success"
         THEN Err("imds_code", b.code, b.message)
         ELSE LET exp == parse_rfc3339(b.expiration) IN
              IF exp = None THEN Err("rfc3339", "", "")
              ELSE Ok(Some(ImdsCredential(b.access_key_id, b.secret_access_key,
                                          Some(b.token), exp)))

get_response(q, r) ==
    /\ ipc[q] = "get"
    /\ iresp' = [iresp EXCEPT ![q] = Some(r)]
    /\ ires' = [ires EXCEPT ![q] = credential_result(r)]
    /\ ipc' = [ipc EXCEPT ![q] = "done"]
    /\ UNCHANGED << token, token_put_at, itoken, ireqs, put_at, now >>
    /\ UNCHANGED otherThanImds
    /\ Locks(q, {}, ipc'[q] = "done")

\* Time passes.
TimeSteps == {20999, 21000, 21001}

Advance(d) ==
    /\ now + d <= ImdsMaxNow
    /\ now' = now + d
    /\ UNCHANGED imdsVars
    /\ UNCHANGED otherThanImds
    /\ UNCHANGED held

ImdsStep(q) ==
    \/ imds_load(q)
    \/ \E r \in PutResponses : put_response(q, r)
    \/ \E r \in ListResponses : list_response(q, r)
    \/ \E r \in GetResponses : get_response(q, r)

NextIMDS ==
    \/ \E q \in Callers : ImdsStep(q)
    \/ \E d \in TimeSteps : Advance(d)

InitIMDS == IdleAws /\ IdleImds /\ IdleMsi /\ IdleAz /\ NoGuards

SpecIMDS == InitIMDS /\ [][NextIMDS]_vars

\* ====================================================================
\* Properties of the AWS CredentialLoader, checked under Spec
\* ====================================================================
ProviderOrder == << "env", "profile", "web" >>

IsPrefix(s, t) == Len(s) <= Len(t) /\ \A i \in 1 .. Len(s) : s[i] = t[i]

\* C1: cache hit. A load() that finds a valid credential c in the slot (no
\* expiry, or expiry later than now) returns exactly c, invokes no provider,
\* does no ConfigLoader call, file read, request or sleep, and leaves the
\* slot equal to c.
C1_CacheHit ==
    [][\A p \in Callers :
         (load(p) /\ credential # None /\ is_valid(credential[1], now))
         => /\ pc'[p] = "done"
            /\ ret'[p] = credential
            /\ credential' = credential
            /\ chain'[p] = << >>
            /\ io'[p] = NoIo]_vars

\* a load() has just returned, from the cache, a credential that an earlier
\* load() resolved through the web identity provider
C1_Witness ==
    /\ pc[1] = "done"
    /\ chain[1] = << >>
    /\ ret[1] # None
    /\ ret[1] = credential
    /\ ret[1][1].access_key = "sts_ak"

\* C2: cache miss. The providers are invoked in the order env, profile,
\* web identity; a provider that returned Some is the last one invoked by
\* that load; and the load's .map step replaces the slot with that
\* credential and returns it.
C2_ChainState ==
    \A p \in Callers :
        /\ IsPrefix(chain[p], ProviderOrder)
        /\ Len(outs[p]) <= Len(chain[p])
        /\ \A i \in 1 .. Len(outs[p]) : outs[p][i] # None => i = Len(chain[p])
        /\ pc[p] = "store" => /\ outs[p] # << >>
                              /\ found[p] = outs[p][Len(outs[p])]
                              /\ found[p] # None
        /\ (pc[p] = "done" /\ chain[p] # << >> /\ ret[p] # None)
           => /\ Len(outs[p]) = Len(chain[p])
              /\ ret[p] = outs[p][Len(outs[p])]

C2_ChainStep ==
    \A p \in Callers :
        /\ (pc[p] = "store" /\ pc'[p] = "done")
           => /\ credential' = found[p]
              /\ ret'[p] = found[p]
        /\ (pc[p] # "done" /\ pc'[p] = "done" /\ chain'[p] # << >> /\ ret'[p] # None)
           => pc[p] = "store"

C2_ProviderChain == [][C2_ChainStep]_vars /\ []C2_ChainState

\* a load() returned the profile provider's credential after the
\* environment provider returned None; the slot holds it
C2_Witness ==
    /\ pc[1] = "done"
    /\ chain[1] = << "env", "profile" >>
    /\ outs[1][1] = None
    /\ ret[1] = outs[1][2]
    /\ ret[1] # None
    /\ credential = ret[1]

\* the web identity provider ran with its configuration complete
WebRan(p) ==
    /\ Len(chain[p]) = 3
    /\ ~disable_assume_role_with_web_identity
    /\ web_identity_configured(config_loader)

\* C3: web identity exhaustion. With token file and role ARN configured, a
\* provider call makes at most 5 attempts; when all of them failed it has
\* made exactly 5 (with 4 sleeps), logged the warning and returned None.
C3_Exhaustion ==
    \A p \in Callers :
        /\ io[p].attempts <= 5
        /\ warned[p] => /\ io[p].attempts = 5
                        /\ io[p].sleeps = 4
                        /\ pc[p] = "done"
                        /\ ret[p] = None
                        /\ outs[p][3] = None
        /\ (WebRan(p) /\ pc[p] = "done" /\ ret[p] = None)
           => /\ warned[p]
              /\ io[p].attempts = 5

\* five attempts failed: the warning is logged and load() returned None
C3_Witness ==
    /\ WebRan(1)
    /\ pc[1] = "done"
    /\ warned[1]
    /\ io[1].attempts = 5
    /\ io[1].reqs = 5
    /\ ret[1] = None

\* C7: web identity without configuration. When the token-file path or the
\* role ARN is missing, the provider returns None on its first attempt with
\* no file read, no request, no sleep and no warning.
C7_ConfigAbsent ==
    \A p \in Callers :
        (Len(chain[p]) = 3 /\ ~disable_assume_role_with_web_identity
            /\ (config_loader.web_identity_token_file = None
                    \/ config_loader.role_arn = None))
        => /\ pc[p] \in {"inner", "done"}
           /\ io[p].attempts <= 1
           /\ io[p].reads = 0
           /\ io[p].reqs = 0
           /\ io[p].sleeps = 0
           /\ ~warned[p]
           /\ pc[p] = "done" => (ret[p] = None /\ io[p].attempts = 1
                                    /\ outs[p] = << None, None, None >>)

\* the provider returned None with a token file configured and no role ARN
C7_Witness ==
    /\ pc[1] = "done"
    /\ Len(chain[1]) = 3
    /\ ~disable_assume_role_with_web_identity
    /\ config_loader.web_identity_token_file # None
    /\ config_loader.role_arn = None
    /\ io[1].attempts = 1
    /\ ret[1] = None

\* position of a provider's result in outs, when it has returned
Returned(p, i) == Len(outs[p]) >= i

\* C8: a provider disabled by its flag returns None and does no I/O: no
\* ConfigLoader call, no token-file read, no request, no sleep.
C8_Disabled ==
    \A p \in Callers :
        /\ disable_env
           => /\ io[p].env = 0
              /\ Returned(p, 1) => outs[p][1] = None
        /\ disable_profile
           => /\ io[p].profile = 0
              /\ Returned(p, 2) => outs[p][2] = None
        /\ disable_assume_role_with_web_identity
           => /\ io[p].attempts = 0 /\ io[p].reads = 0
              /\ io[p].reqs = 0 /\ io[p].sleeps = 0
              /\ pc[p] \notin {"inner", "read", "call", "sleep"}
              /\ Returned(p, 3) => outs[p][3] = None

\* all three providers are disabled and each was invoked and returned None
\* while the environment and the profile files define keys
C8_Witness ==
    /\ disable_env /\ disable_profile /\ disable_assume_role_with_web_identity
    /\ pc[1] = "done"
    /\ outs[1] = << None, None, None >>
    /\ environ.access_key_id # None /\ environ.secret_access_key # None
    /\ profile_files.shared # None
    /\ io[1] = NoIo

\* C9: nothing applicable. The slot only changes in the .map step of a load
\* whose provider returned Some (or in with_credential); a load() whose
\* providers all returned None returns None and leaves the slot as it was,
\* an expired credential included.
C9_SlotStep ==
    /\ credential' # credential
       => \/ \E p \in Callers : /\ pc[p] = "store"
                                 /\ found[p] # None
                                 /\ credential' = found[p]
          \/ /\ Quiescent
             /\ credential' # None
             /\ \A p \in Callers : pc'[p] = "idle"
    /\ \A p \in Callers :
          (pc[p] \in {"web", "inner", "read", "call"} /\ pc'[p] = "done")
          => (ret'[p] # None \/ credential' = credential)
    /\ \A p \in Callers :
          (pc'[p] = "done" /\ Len(outs'[p]) = 3 /\ outs'[p][3] = None)
          => (ret'[p] = None /\ credential' = credential)

C9_NothingApplicable == [][C9_SlotStep]_vars

\* a load() on a miss returned None and the expired credential is still
\* in the slot
C9_Witness ==
    /\ pc[1] = "done"
    /\ outs[1] = << None, None, None >>
    /\ ret[1] = None
    /\ credential # None
    /\ ~is_valid(credential[1], now)

\* the ConfigLoader holds no key yet
Keyless(cl) == cl.access_key_id = None /\ cl.secret_access_key = None
                  /\ cl.session_token = None

\* C11: environment provider. An enabled load_via_env returns (it never
\* fails); it returns Some iff the ConfigLoader, after load_via_env(), has
\* both an access key id and a secret access key; the credential carries
\* exactly those two values, the session token iff the ConfigLoader has one,
\* and no expiry. On a ConfigLoader that held no key before, "has" means
\* that the environment defines the variable.
C11_EnvStep ==
    \A p \in Callers :
        (load_via_env(p) /\ ~disable_env)
        => LET cl == config_loader'
               r == outs'[p][1]
               both == cl.access_key_id # None /\ cl.secret_access_key # None
           IN /\ Len(outs'[p]) = 1
              /\ pc'[p] \in {"store", "profile"}
              /\ (r # None) <=> both
              /\ r # None => /\ r[1].access_key = cl.access_key_id[1]
                             /\ r[1].secret_key = cl.secret_access_key[1]
                             /\ r[1].security_token = cl.session_token
                             /\ r[1].expires_in = None
              /\ Keyless(config_loader)
                 => /\ both <=> (environ.access_key_id # None
                                     /\ environ.secret_access_key # None)
                    /\ r # None => /\ r[1].access_key = environ.access_key_id[1]
                                   /\ r[1].secret_key = environ.secret_access_key[1]
                                   /\ r[1].security_token = environ.session_token

C11_EnvProvider == [][C11_EnvStep]_vars

\* the environment provider returned the environment's two keys with its
\* session token
C11_Witness ==
    /\ pc[1] = "store"
    /\ chain[1] = << "env" >>
    /\ environ.session_token = Some("env_st")
    /\ found[1] = Some(Credential("env_ak", "env_sk", Some("env_st"), None))

\* the keys of a profile file, as a credential's
KeysOf(file, c) ==
    /\ c.access_key = file.access_key_id
    /\ c.secret_key = file.secret_access_key

\* what the files make the profile provider return: the shared-credentials
\* file's keys when it defines the profile, else the config file's
ProfileExpected(r) ==
    /\ profile_files.shared # None
       => (r # None /\ KeysOf(profile_files.shared[1], r[1]))
    /\ (profile_files.shared = None /\ profile_files.config # None)
       => (r # None /\ KeysOf(profile_files.config[1], r[1]))

\* C14: profile precedence. When the profile provider is reached and
\* enabled, it returns the shared-credentials file's access key id and
\* secret key if that file defines the profile (whether or not the config
\* file does too), and the config file's when only the config file does;
\* a load() that ends at the profile provider returns that credential.
C14_ProfileStep ==
    \A p \in Callers :
        (load_via_profile(p) /\ ~disable_profile) => ProfileExpected(outs'[p][2])

C14_ProfileState ==
    \A p \in Callers :
        (pc[p] = "done" /\ Len(chain[p]) = 2 /\ ret[p] # None)
        => /\ outs[p][1] = None
           /\ ProfileExpected(ret[p])

C14_ProfilePrecedence == [][C14_ProfileStep]_vars /\ []C14_ProfileState

\* both files define the profile and load() returned the shared file's keys
C14_Witness ==
    /\ pc[1] = "done"
    /\ chain[1] = << "env", "profile" >>
    /\ profile_files.shared # None /\ profile_files.config # None
    /\ ret[1] # None
    /\ ret[1][1].access_key = "shared_access_key_id"
    /\ ret[1][1].secret_key = "shared_secret_access_key"

\* the delay before retry k without jitter: 1s -> 2s -> 4s -> 8s
Schedule == << 1, 2, 4, 8 >>

\* C19: backoff schedule. Within one web identity call there is no sleep
\* before the first attempt, one sleep after each failed attempt that is
\* followed by a retry, none after a successful attempt and none after the
\* fifth failure (at most 4 sleeps); the k-th sleep lasts at least
\* Schedule[k] = 1, 2, 4, 8 seconds, each twice the one before, and jitter
\* only adds to it.
C19_SleepState ==
    \A p \in Callers :
        /\ io[p].sleeps <= 4
        /\ io[p].sleeps = retry[p]
        /\ pc[p] = "inner" => io[p].attempts = io[p].sleeps
        /\ pc[p] \in {"read", "call"} => io[p].attempts = io[p].sleeps + 1
        /\ pc[p] = "sleep" => /\ io[p].sleeps \in 1 .. 4
                              /\ io[p].attempts = io[p].sleeps
                              /\ io[p].delay >= Schedule[io[p].sleeps]
        /\ pc[p] # "sleep" => io[p].delay = 0
        /\ (pc[p] \in {"store", "done"} /\ io[p].attempts > 0)
           => io[p].sleeps = io[p].attempts - 1
        /\ \A k \in 2 .. 4 : Schedule[k] = 2 * Schedule[k - 1]

C19_SleepStep ==
    \A p \in Callers :
        /\ (io'[p].sleeps # io[p].sleeps /\ io'[p] # NoIo)
           => /\ pc[p] \in {"read", "call"}
              /\ pc'[p] = "sleep"
              /\ io'[p].sleeps = io[p].sleeps + 1
              /\ found'[p] = None
        /\ (pc[p] = "sleep" /\ pc'[p] # "sleep")
           => /\ pc'[p] = "inner"
              /\ io'[p].attempts = io[p].attempts
        /\ (pc[p] = "call" /\ pc'[p] \in {"store", "done"})
           => io'[p].sleeps = io[p].sleeps

C19_BackoffSchedule == []C19_SleepState /\ [][C19_SleepStep]_vars

\* the fourth sleep, after the fourth failed attempt, lasts 8 seconds
C19_Witness ==
    /\ pc[1] = "sleep"
    /\ io[1].attempts = 4
    /\ io[1].sleeps = 4
    /\ io[1].delay = 8

\* C20: token rotation. Every attempt that sends a request read the token
\* file in the same step, and the WebIdentityToken it sends is the file's
\* content at that moment: a file changed between two attempts is sent with
\* its new content by the later one. An attempt that cannot read the file
\* sends nothing.
C20_ReadStep ==
    \A p \in Callers :
        /\ (pc[p] = "read" /\ pc'[p] = "call")
           => /\ token_file # None
              /\ sent'[p] = token_file
              /\ io'[p].reads = io[p].reads + 1
              /\ io'[p].reqs = io[p].reqs + 1
        /\ (pc[p] = "read" /\ pc'[p] # "read" /\ token_file = None)
           => /\ pc'[p] \in {"sleep", "done"}
              /\ io'[p].reads = io[p].reads + 1
              /\ io'[p].reqs = io[p].reqs
        /\ (io'[p].reqs # io[p].reqs /\ io'[p] # NoIo)
           => (pc[p] = "read" /\ pc'[p] = "call")

C20_ReadState ==
    \A p \in Callers :
        /\ pc[p] = "call" => /\ sent[p] # None
                             /\ io[p].reads = io[p].attempts
        /\ pc[p] = "read" => io[p].reads = io[p].attempts - 1
        /\ io[p].reqs <= io[p].reads

C20_TokenRotation == [][C20_ReadStep]_vars /\ []C20_ReadState

\* the second attempt read the file again, sent "tok2", and the file has
\* been rotated once more while the request is in flight
C20_Witness ==
    /\ pc[1] = "call"
    /\ io[1].attempts = 2
    /\ io[1].reads = 2
    /\ sent[1] = Some("tok2")
    /\ token_file = Some("tok1")

\* ====================================================================
\* Properties of two callers on one CredentialLoader, checked under SpecRace
\* ====================================================================
\* every credential a provider invocation can return, whole
ProviderCredentials ==
    {inner_result(r)[1] : r \in {x \in StsResponses : inner_result(x) # None}}
    \cup {Credential("env_ak", "env_sk", t, None) : t \in Opt({"env_st"})}

\* the caller's load() missed the cache and returned a credential
Resolved(p) == pc[p] = "done" /\ chain[p] # << >> /\ ret[p] # None

\* C16: concurrent cache miss. Two overlapping load() calls that both miss
\* both run the provider chain. The slot is only written by the .map step
\* of a caller, with the whole credential that caller's own provider
\* returned in one invocation, so it holds None, the preset credential or
\* one such credential; a
\* caller returns the credential it resolved itself, whatever the other
\* stored; and when both have returned a credential the slot holds one of
\* the two, the one written last.
C16_MissState ==
    /\ \/ credential = None
       \/ credential[1] \in PresetCredentials
       \/ credential[1] \in ProviderCredentials
    /\ \A p \in Callers :
          Resolved(p) => ret[p] = outs[p][Len(outs[p])]
    /\ (\A p \in Callers : Resolved(p)) => \E p \in Callers : credential = ret[p]

C16_MissStep ==
    /\ credential' # credential
       => \E p \in Callers : /\ pc[p] = "store" /\ pc'[p] = "done"
                             /\ found[p] = outs[p][Len(outs[p])]
                             /\ credential' = found[p]
    /\ \A p \in Callers :
          (pc[p] = "store" /\ pc'[p] = "done")
          => /\ ret'[p] = found[p]
             /\ credential' = found[p]

C16_ConcurrentMiss == []C16_MissState /\ [][C16_MissStep]_vars

\* both callers missed the empty slot, each sent its own STS request and
\* got its own credential; caller 2 stored first, caller 1 last: each
\* returned its own and the slot holds caller 1's
C16_Witness ==
    /\ now = 0
    /\ Resolved(1) /\ Resolved(2)
    /\ Len(chain[1]) = 3 /\ Len(chain[2]) = 3
    /\ ret[1][1].expires_in = Some(1)
    /\ ret[2][1].expires_in = Some(2)
    /\ credential = ret[1]

\* ====================================================================
\* Properties of the web identity provider, checked under SpecWeb
\* ====================================================================
\* the attempt of caller p ended as a failure in this step: the loop sleeps
\* before the next attempt, or gives up with the warning
FailedAttempt(p) ==
    /\ found'[p] = None
    /\ \/ pc'[p] = "sleep" /\ retry'[p] = retry[p] + 1
       \/ pc'[p] = "done" /\ warned'[p] /\ ret'[p] = None /\ retry[p] = 4

\* the body is the AssumeRoleWithWebIdentity XML with a readable Expiration
\* and no empty field
GoodBody(r) ==
    /\ r.body # None
    /\ r.body[1].expiration.wellformed
    /\ r.body[1].access_key_id # ""
    /\ r.body[1].secret_access_key # ""
    /\ r.body[1].session_token # ""

BodyCredential(r) ==
    Credential(r.body[1].access_key_id, r.body[1].secret_access_key,
               Some(r.body[1].session_token), Some(r.body[1].expiration.t))

\* C21 as stated: a response is a failed attempt iff its status is not 2xx,
\* and every 2xx response with a good body is taken as a success.
C21_Every2xxSucceeds ==
    [][\A p \in Callers : \A r \in StsResponses :
          inner_response(p, r)
          => /\ (r.status < 200 \/ r.status > 299) => FailedAttempt(p)
             /\ (r.status >= 200 /\ r.status <= 299 /\ GoodBody(r))
                => /\ pc'[p] = "store"
                   /\ found'[p] = Some(BodyCredential(r))]_vars

\* C21: web identity status handling. An STS response is a failed attempt
\* whenever its status is not exactly 200, the other 2xx statuses included
\* whatever their body; only a 200 response has its body parsed, and a 200
\* response with a good body is the success whose credential goes to the
\* slot. A credential obtained from STS always came with status 200.
C21_StatusStep ==
    \A p \in Callers : \A r \in StsResponses :
        inner_response(p, r)
        => /\ io'[p].status = Some(r.status)
           /\ r.status # 200 => FailedAttempt(p)
           /\ (r.status = 200 /\ GoodBody(r))
              => /\ pc'[p] = "store"
                 /\ found'[p] = Some(BodyCredential(r))
                 /\ io'[p].sleeps = io[p].sleeps

C21_StatusState ==
    \A p \in Callers :
        /\ (pc[p] = "store" /\ WebRan(p) /\ outs[p][3] # None)
           => io[p].status = Some(200)
        /\ (pc[p] = "sleep" /\ io[p].status # None /\ io[p].status # Some(200))
           => found[p] = None

C21_StatusHandling == [][C21_StatusStep]_vars /\ []C21_StatusState

\* a 204 response was received and the loop sleeps before the next attempt
C21_Witness ==
    /\ pc[1] = "sleep"
    /\ io[1].status = Some(204)
    /\ io[1].reqs = 1
    /\ io[1].sleeps = 1

\* C26: failure before the network. With the token file and the role ARN
\* configured, an attempt whose read of the token file fails sends no STS
\* request and is a failed attempt like a failed request: a sleep and a new
\* attempt while fewer than four sleeps were made, the warning and None
\* after the fifth; a file that stays unreadable gives 5 reads, 4 sleeps,
\* 0 requests, then None. A 200 response whose body, Expiration or
\* credential check is bad is a failed attempt too, never returned.
C26_FailStep ==
    \A p \in Callers :
        /\ (pc[p] = "read" /\ pc'[p] # "read" /\ token_file = None)
           => /\ FailedAttempt(p)
              /\ io'[p].reads = io[p].reads + 1
              /\ io'[p].reqs = io[p].reqs
              /\ sent'[p] = None
              /\ retry[p] < 4 => /\ pc'[p] = "sleep"
                                 /\ io'[p].sleeps = io[p].sleeps + 1
                                 /\ io'[p].delay >= Schedule[io'[p].sleeps]
              /\ retry[p] = 4 => pc'[p] = "done" /\ warned'[p]
        /\ \A r \in StsResponses :
              (inner_response(p, r) /\ r.status = 200 /\ ~GoodBody(r))
              => /\ FailedAttempt(p)
                 /\ ret'[p] = ret[p] \/ ret'[p] = None
                 /\ retry[p] < 4 => /\ pc'[p] = "sleep"
                                    /\ io'[p].delay >= Schedule[io'[p].sleeps]

C26_FailState ==
    \A p \in Callers :
        /\ io[p].reqs <= io[p].reads
        /\ io[p].reads = io[p].attempts - (IF pc[p] = "read" THEN 1 ELSE 0)
           \/ io[p].attempts = 0 \/ pc[p] = "inner"
        /\ (warned[p] /\ io[p].reqs = 0)
           => /\ io[p].reads = 5
              /\ io[p].sleeps = 4
              /\ ret[p] = None
              /\ pc[p] = "done"

C26_FailureBeforeNetwork == [][C26_FailStep]_vars /\ []C26_FailState

\* the file was unreadable at each of the five attempts
C26_Witness ==
    /\ pc[1] = "done"
    /\ warned[1]
    /\ token_file = None
    /\ io[1].reads = 5
    /\ io[1].sleeps = 4
    /\ io[1].reqs = 0
    /\ ret[1] = None

\* a 200 response with an empty access key was received and is retried
C26_RetryWitness ==
    /\ pc[1] = "sleep"
    /\ io[1].status = Some(200)
    /\ found[1] = None

\* C25: load() terminates. Given that every file read, STS request and
\* sleep returns, a load call that started returns; it returns None or a
\* credential, never an error, after at most 5 STS requests and 4 sleeps.
IsCredential(c) ==
    DOMAIN c = {"access_key", "secret_key", "security_token", "expires_in"}

C25_Bounded ==
    \A p \in Callers :
        /\ io[p].reqs <= 5
        /\ io[p].sleeps <= 4
        /\ io[p].attempts <= 5
        /\ pc[p] = "done"
           => ret[p] = None \/ (Len(ret[p]) = 1 /\ IsCredential(ret[p][1]))

C25_Terminates ==
    /\ \A p \in Callers : (pc[p] \notin {"idle", "done"}) ~> (pc[p] = "done")
    /\ []C25_Bounded

\* a load that returned a credential from its fifth request, after four sleeps
C25_Witness ==
    /\ pc[1] = "done"
    /\ ret[1] # None
    /\ io[1].reqs = 5
    /\ io[1].sleeps = 4
    /\ ~warned[1]

\* ====================================================================
\* Properties of the IMDSv2Loader, checked under SpecIMDS
\* ====================================================================

\* C4: session-token reuse. When the sub-cache holds a token fetched by a PUT
\* and a load starts less than 21000 s after that PUT was issued, the load
\* issues no PUT and its requests carry the stored token; a load issues at
\* most one PUT, so the fetching load and the reusing one issue one in all.
C4_ReuseStep ==
    \A q \in Callers :
        (imds_load(q) /\ token.value # "" /\ now < token_put_at + 21000)
        => /\ ireqs'[q].put = 0
           /\ ipc'[q] = "list"
           /\ itoken'[q] = token.value
           /\ token' = token

C4_OnePut ==
    \A q \in Callers :
        /\ ireqs[q].put <= 1
        /\ ipc[q] = "put" => ireqs[q] = [NoReqs EXCEPT !.put = 1]

GotJson(q) ==
    /\ iresp[q] # None
    /\ iresp[q][1].status = 200
    /\ iresp[q][1].body # None

JsonOf(q) == iresp[q][1].body[1]

FailsAt(q) ==
    /\ ipc'[q] = "done"
    /\ ires'[q].tag = "Err"
    /\ ires'[q].cred = None
    /\ ireqs'[q] = ireqs[q]

\* C18: IMDS hard failure. A load sends the token PUT only when the stored
\* session token is not fresh, then the role-listing GET, then the
\* credential GET, each at most once (at most 3 requests); a response other
\* than 200 to any of them ends the load with an error at once, with no
\* retry and no later request.
C18_FailStep ==
    \A q \in Callers :
        /\ imds_load(q)
           => IF token.expires_in > now
              THEN ipc'[q] = "list" /\ ireqs'[q] = [put |-> 0, list |-> 1, get |-> 0]
              ELSE ipc'[q] = "put" /\ ireqs'[q] = [put |-> 1, list |-> 0, get |-> 0]
        /\ \A r \in PutResponses :
              (put_response(q, r) /\ r.status # 200) => FailsAt(q)
        /\ \A r \in ListResponses :
              (list_response(q, r) /\ r.status # 200) => FailsAt(q)
        /\ \A r \in GetResponses :
              (get_response(q, r) /\ r.status # 200) => FailsAt(q)
        /\ (ipc[q] = "put" /\ ipc'[q] # "put") => ipc'[q] \in {"list", "done"}
        /\ (ipc[q] = "list" /\ ipc'[q] # "list") => ipc'[q] \in {"get", "done"}
        /\ (ipc[q] = "get" /\ ipc'[q] # "get") => ipc'[q] = "done"

C18_OrderState ==
    \A q \in Callers :
        /\ ireqs[q].put \in 0 .. 1 /\ ireqs[q].list \in 0 .. 1 /\ ireqs[q].get \in 0 .. 1
        /\ ireqs[q].get = 1 => ireqs[q].list = 1
        /\ ipc[q] = "put" => ireqs[q] = [put |-> 1, list |-> 0, get |-> 0]
        /\ ipc[q] = "list" => (ireqs[q].list = 1 /\ ireqs[q].get = 0)
        /\ ipc[q] = "get" => (ireqs[q].list = 1 /\ ireqs[q].get = 1)
        /\ (ipc[q] = "done" /\ ires[q].tag = "Ok") => ireqs[q].get = 1

C18_HardFailure == [][C18_FailStep]_vars /\ []C18_OrderState

\* the PUT succeeded, the role-listing GET was answered 404, and the load
\* returned the error without a credential GET
C18_Witness ==
    /\ ipc[1] = "done"
    /\ ires[1].tag = "Err"
    /\ ires[1].error = "request_failed"
    /\ ires[1].message = "not found"
    /\ ireqs[1] = [put |-> 1, list |-> 1, get |-> 0]

\* C22: session-token expiry arithmetic. A token taken from a 200 PUT
\* response is stored with expiry = the time the response is processed
\* + 21600 s - 600 s, that is + 21000 s; a load reuses the stored token
\* iff that expiry is strictly later than now, so a load at or after the
\* expiry sends a new PUT, and a reused token was stored less than 21000 s
\* before.
C22_ExpiryStep ==
    \A q \in Callers :
        /\ \A r \in PutResponses :
              (put_response(q, r) /\ r.status = 200)
              => /\ token'.expires_in = now + ttl_seconds - safety_margin
                 /\ token'.expires_in = now + 21000
                 /\ token'.value = r.body
        /\ imds_load(q)
           => /\ ipc'[q] = "list" <=> token.expires_in > now
              /\ ipc'[q] = "put" <=> token.expires_in <= now
              /\ ireqs'[q].put = (IF now >= token.expires_in THEN 1 ELSE 0)
              /\ ipc'[q] = "list"
                 => /\ itoken'[q] = token.value
                    /\ now - (token.expires_in - 21000) < 21000

C22_ExpiryState ==
    /\ ttl_seconds = 21600 /\ safety_margin = 600
    /\ token.value # "" => token.expires_in \in 21000 .. now + 21000
    /\ token.value = "" => token = NoToken

C23_SubCacheStep ==
    \A q \in Callers :
        /\ \A r \in PutResponses :
              put_response(q, r)
              => IF r.status # 200
                 THEN token' = token /\ ipc'[q] = "done" /\ ires'[q].tag = "Err"
                 ELSE /\ token' = [value |-> r.body, expires_in |-> now + 21000]
                      /\ ipc'[q] = "list"
                      /\ ireqs'[q] = [put |-> 1, list |-> 1, get |-> 0]
        /\ \A r \in ListResponses : list_response(q, r) => token' = token
        /\ \A r \in GetResponses : get_response(q, r) => token' = token
        /\ (imds_load(q) /\ token.value # "" /\ token.expires_in > now)
           => /\ ireqs'[q] = [put |-> 0, list |-> 1, get |-> 0]
              /\ itoken'[q] = token.value
              /\ token' = token

C23_SubCacheState ==
    \A q \in Callers :
        (ipc[q] = "done" /\ ireqs[q].put = 1 /\ ireqs[q].list = 1)
        => token.value # ""

C23_SubCacheOnFailure == [][C23_SubCacheStep]_vars /\ []C23_SubCacheState

\* the load of caller 1 stored a token and failed at the role listing; the
\* load of caller 2 that started afterwards carries that token without a PUT
C23_Witness ==
    /\ ipc[1] = "done"
    /\ ires[1].tag = "Err"
    /\ ireqs[1] = [put |-> 1, list |-> 1, get |-> 0]
    /\ ipc[2] = "list"
    /\ ireqs[2].put = 0
    /\ itoken[2] = token.value
    /\ itoken[2] = itoken[1]
    /\ token.value # ""

\* ====================================================================
\* Azure ImdsManagedIdentityCredential
\* ====================================================================
otherThanMsi == << awsVars, imdsVars, azVars >>

\* MSI_API_VERSION
MSI_API_VERSION == "2019-08-01"

DefaultEndpoint == "http://169.254.169.254/metadata/identity/oauth2/token"

Ids == {"id1", "id2"}
Resources == {"https://storage.azure.com/", "https://vault.azure.net/"}

\* the builder methods take the credential by value: no get_token is running
NotRequesting == mpc # "sent"

with_endpoint(a) ==
    /\ NotRequesting
    /\ endpoint' = Some(a)
    /\ UNCHANGED << secret, object_id, client_id, msi_res_id, last_selector,
                    mpc, mreq, mres, mrsp >>
    /\ UNCHANGED otherThanMsi
    /\ UNCHANGED held

with_secret(a) ==
    /\ NotRequesting
    /\ secret' = Some(a)
    /\ UNCHANGED << endpoint, object_id, client_id, msi_res_id, last_selector,
                    mpc, mreq, mres, mrsp >>
    /\ UNCHANGED otherThanMsi
    /\ UNCHANGED held

with_object_id(a) ==
    /\ NotRequesting
    /\ object_id' = Some(a)
    /\ client_id' = None
    /\ msi_res_id' = None
    /\ last_selector' = Some([call |-> "with_object_id", value |-> a])
    /\ UNCHANGED << endpoint, secret, mpc, mreq, mres, mrsp >>
    /\ UNCHANGED otherThanMsi
    /\ UNCHANGED held

\* a with_client_id that forgets to clear the object id
with_client_id_keeps_object_id(a) ==
    /\ NotRequesting
    /\ client_id' = Some(a)
    /\ msi_res_id' = None
    /\ last_selector' = Some([call |-> "with_client_id", value |-> a])
    /\ UNCHANGED << object_id, endpoint, secret, mpc, mreq, mres, mrsp >>
    /\ UNCHANGED otherThanMsi
    /\ UNCHANGED held

with_client_id(a) ==
    /\ NotRequesting
    /\ client_id' = Some(a)
    /\ object_id' = None
    /\ msi_res_id' = None
    /\ last_selector' = Some([call |-> "with_client_id", value |-> a])
    /\ UNCHANGED << endpoint, secret, mpc, mreq, mres, mrsp >>
    /\ UNCHANGED otherThanMsi
    /\ UNCHANGED held

with_identity(a) ==
    /\ NotRequesting
    /\ msi_res_id' = Some(a)
    /\ object_id' = None
    /\ client_id' = None
    /\ last_selector' = Some([call |-> "with_identity", value |-> a])
    /\ UNCHANGED << endpoint, secret, mpc, mreq, mres, mrsp >>
    /\ UNCHANGED otherThanMsi
    /\ UNCHANGED held

\* a match without the arm of msi_res_id
selector_items_without_msi_res_id(o, c, m) ==
    IF o # None /\ c = None /\ m = None THEN << << "object_id", o[1] >> >>
    ELSE IF o = None /\ c # None /\ m = None THEN << << "client_id", c[1] >> >>
    ELSE << >>

\* The match on (object_id, client_id, msi_res_id): the selector item pushed.
selector_items(o, c, m) ==
    IF o # None /\ c = None /\ m = None THEN << << "object_id", o[1] >> >>
    ELSE IF o = None /\ c # None /\ m = None THEN << << "client_id", c[1] >> >>
    ELSE IF o = None /\ c = None /\ m # None THEN << << "msi_res_id", m[1] >> >>
    ELSE << >>

\* The request get_token builds.
msi_request(resource) ==
    [url |-> IF endpoint # None THEN endpoint[1] ELSE DefaultEndpoint,
     method |-> "GET",
     query |-> << << "api-version", MSI_API_VERSION >>, << "resource", resource >> >>
               \o selector_items(object_id, client_id, msi_res_id),
     headers |-> [metadata |-> "true", x_identity_header |-> secret]]

\* get_token up to Client::new().execute(req)
get_token(resource) ==
    /\ mpc \in {"idle", "done"}
    /\ mreq' = Some(msi_request(resource))
    /\ mres' = NoResult
    /\ mrsp' = None
    /\ mpc' = "sent"
    /\ UNCHANGED << endpoint, secret, object_id, client_id, msi_res_id, last_selector >>
    /\ UNCHANGED otherThanMsi
    /\ UNCHANGED held

\* What the metadata endpoint can answer: status 0 is a transport error,
\* collected whether the body could be read to its end, body None a body
\* that is not the token JSON.
MsiResponses ==
    {[status |-> 0, collected |-> FALSE, body |-> None],
     [status |-> 400, collected |-> TRUE, body |-> None],
     [status |-> 400, collected |-> FALSE, body |-> None],
     [status |-> 200, collected |-> FALSE, body |-> None],
     [status |-> 200, collected |-> TRUE, body |-> None],
     [status |-> 200, collected |-> TRUE, body |-> Some("bearer")],
     [status |-> 201, collected |-> TRUE, body |-> Some("bearer")]}

\* rsp_status.is_success()
is_success(status) == status >= 200 /\ status < 300

Panic == [tag |-> "panic", cred |-> None, error |-> "Error getting MSI token",
          code |-> "", message |-> ""]

\* What get_token makes of the response: execute(..).await?, then
\* collect().await?, then the status test, then serde_json::from_slice(..)?.
token_result(r) ==
    IF r.status = 0 THEN Err("transport", "", "")
    ELSE IF ~r.collected THEN Err("body", "", "")
    ELSE IF ~is_success(r.status) THEN Panic
    ELSE IF r.body = None THEN Err("json", "", "")
    ELSE Ok(r.body)

msi_response(r) ==
    /\ mpc = "sent"
    /\ mres' = token_result(r)
    /\ mrsp' = Some(r)
    /\ mpc' = "done"
    /\ UNCHANGED << endpoint, secret, object_id, client_id, msi_res_id,
                    last_selector, mreq >>
    /\ UNCHANGED otherThanMsi
    /\ UNCHANGED held

NextMsi ==
    \/ \E a \in {"http://localhost/token"} : with_endpoint(a)
    \/ \E a \in {"secret"} : with_secret(a)
    \/ \E a \in Ids : with_object_id(a)
    \/ \E a \in Ids : with_client_id(a)
    \/ \E a \in Ids : with_identity(a)
    \/ \E res \in Resources : get_token(res)
    \/ \E r \in MsiResponses : msi_response(r)

InitMsi == IdleAws /\ IdleImds /\ IdleMsi /\ IdleAz /\ NoGuards

SpecMsi == InitMsi /\ [][NextMsi]_vars

SelectorKeys == {"object_id", "client_id", "msi_res_id"}

\* the selector items of a request's query
SelectorsOf(req) ==
    {req.query[i] : i \in {j \in 1 .. Len(req.query) : req.query[j][1] \in SelectorKeys}}

SelectorKeyOf(call) ==
    IF call = "with_object_id" THEN "object_id"
    ELSE IF call = "with_client_id" THEN "client_id"
    ELSE "msi_res_id"

\* C5: identity-selector exclusivity. After any sequence of with_object_id,
\* with_client_id and with_identity calls at most one of object_id, client_id
\* and msi_res_id is set: the one of the last such call, with that call's
\* value; the request get_token then builds carries that selector and no other.
C5_SelectorExclusive ==
    /\ Cardinality({f \in {"o", "c", "m"} :
            (f = "o" /\ object_id # None) \/ (f = "c" /\ client_id # None)
                \/ (f = "m" /\ msi_res_id # None)}) <= 1
    /\ last_selector = None
       => (object_id = None /\ client_id = None /\ msi_res_id = None)
    /\ last_selector # None
       => LET l == last_selector[1] IN
          /\ object_id = (IF l.call = "with_object_id" THEN Some(l.value) ELSE None)
          /\ client_id = (IF l.call = "with_client_id" THEN Some(l.value) ELSE None)
          /\ msi_res_id = (IF l.call = "with_identity" THEN Some(l.value) ELSE None)
    /\ (mpc = "sent" /\ last_selector # None)
       => SelectorsOf(mreq[1])
            = {<< SelectorKeyOf(last_selector[1].call), last_selector[1].value >>}

\* client_id configured after object_id: the request in flight carries
\* client_id alone
C5_Witness ==
    /\ mpc = "sent"
    /\ last_selector = Some([call |-> "with_client_id", value |-> "id2"])
    /\ object_id = None
    /\ SelectorsOf(mreq[1]) = {<< "client_id", "id2" >>}
    /\ mres = NoResult

\* the response was a status outside 200..299
FailureStatus(r) == r.status # 0 /\ r.collected /\ ~is_success(r.status)

\* C12: failure status. A get_token whose response has a status outside
\* 200..299 has returned an error result: an Err, with no token.
C12_FailureIsError ==
    (mpc = "done" /\ mrsp # None /\ FailureStatus(mrsp[1]))
    => (mres.tag = "Err" /\ mres.cred = None)

\* C15, as the specification states it: every request carries api-version,
\* resource and exactly one identity selector, whatever was configured.
C15_ExactlyOneSelector ==
    mpc = "sent"
    => LET q == mreq[1].query IN
       /\ q[1] = << "api-version", "2019-08-01" >>
       /\ q[2][1] = "resource" /\ q[2][2] \in Resources
       /\ Cardinality(SelectorsOf(mreq[1])) = 1

\* C15: request shape. Every request get_token builds carries
\* api-version=2019-08-01 first and resource=<the target> second, then the
\* one identity selector configured last when one was configured, and no
\* selector at all when none ever was: the query has no other item.
C15_ShapeStep ==
    \A res \in Resources :
        get_token(res)
        => LET q == mreq'[1].query IN
           /\ q[1] = << "api-version", "2019-08-01" >>
           /\ q[2] = << "resource", res >>
           /\ Len(q) = 2 + Cardinality(SelectorsOf(mreq'[1]))

C15_ShapeState ==
    mpc = "sent"
    => /\ Cardinality(SelectorsOf(mreq[1])) = (IF last_selector = None THEN 0 ELSE 1)
       /\ \A i \in 3 .. Len(mreq[1].query) : mreq[1].query[i][1] \in SelectorKeys
       /\ Len(mreq[1].query) <= 3

C15_RequestShape == [][C15_ShapeStep]_vars /\ []C15_ShapeState

\* a request built on a credential with an endpoint and a secret configured
\* and no selector: it carries api-version and resource alone
C15_Witness ==
    /\ mpc = "sent"
    /\ last_selector = None
    /\ endpoint # None /\ secret # None
    /\ mreq[1].query = << << "api-version", "2019-08-01" >>,
                          << "resource", "https://storage.azure.com/" >> >>

\* ====================================================================
\* Azure storage Loader
\* ====================================================================
otherThanAz == << awsVars, imdsVars, msiVars >>

SharedKey(name, key) == [kind |-> "SharedKey", a |-> name, b |-> key]
SharedAccessSignature(tok) == [kind |-> "SharedAccessSignature", a |-> tok, b |-> ""]
BearerToken(tok) == [kind |-> "BearerToken", a |-> tok, b |-> ""]

\* a provider that prefers the shared key to the SAS token
load_via_config_key_first(cfg) ==
    IF cfg.account_name # None /\ cfg.account_key # None
    THEN Ok(Some(SharedKey(cfg.account_name[1], cfg.account_key[1])))
    ELSE IF cfg.sas_token # None
    THEN Ok(Some(SharedAccessSignature(cfg.sas_token[1])))
    ELSE Ok(None)

\* Loader::load_via_config
load_via_config(cfg) ==
    IF cfg.sas_token # None
    THEN Ok(Some(SharedAccessSignature(cfg.sas_token[1])))
    ELSE IF cfg.account_name # None /\ cfg.account_key # None
    THEN Ok(Some(SharedKey(cfg.account_name[1], cfg.account_key[1])))
    ELSE Ok(None)

\* Loader::load_inner: Some of load_via_config, else None; its error with `?`
load_inner(cfg) ==
    LET r == load_via_config(cfg) IN
    IF r.tag # "Ok" THEN r
    ELSE IF r.cred # None THEN Ok(r.cred) ELSE Ok(None)

\* a cache check in which load_with_imds takes only a stored BearerToken
az_begin_by_operation(p, op, miss) ==
    LET hit == /\ az_credential # None
               /\ op = "load_with_imds" => az_credential[1].kind = "BearerToken"
    IN
    /\ apc[p] \in {"idle", "done"}
    /\ aop' = [aop EXCEPT ![p] = op]
    /\ ahit' = [ahit EXCEPT ![p] = hit]
    /\ IF hit
       THEN /\ aret' = [aret EXCEPT ![p] = Ok(az_credential)]
            /\ apc' = [apc EXCEPT ![p] = "done"]
            /\ areqs' = [areqs EXCEPT ![p] = 0]
       ELSE /\ aret' = [aret EXCEPT ![p] = NoResult]
            /\ apc' = [apc EXCEPT ![p] = miss]
            /\ areqs' = [areqs EXCEPT ![p] = IF miss = "imds" THEN 1 ELSE 0]
    /\ UNCHANGED << az_config, az_credential >>
    /\ UNCHANGED otherThanAz
    /\ Locks(p, {az_check_guard}, apc'[p] = "done")

\* The cache check both operations start with.
az_begin(p, op, miss) ==
    /\ apc[p] \in {"idle", "done"}
    /\ aop' = [aop EXCEPT ![p] = op]
    /\ ahit' = [ahit EXCEPT ![p] = az_credential # None]
    /\ IF az_credential # None
       THEN /\ aret' = [aret EXCEPT ![p] = Ok(az_credential)]
            /\ apc' = [apc EXCEPT ![p] = "done"]
            /\ areqs' = [areqs EXCEPT ![p] = 0]
       ELSE /\ aret' = [aret EXCEPT ![p] = NoResult]
            /\ apc' = [apc EXCEPT ![p] = miss]
            /\ areqs' = [areqs EXCEPT ![p] = IF miss = "imds" THEN 1 ELSE 0]
    /\ UNCHANGED << az_config, az_credential >>
    /\ UNCHANGED otherThanAz
    /\ Locks(p, {az_check_guard}, apc'[p] = "done")

\* Loader::load, the cache check
az_load(p) == az_begin(p, "load", "inner")

\* Loader::load after the check: load_inner, then the slot is written
az_load_inner(p) ==
    /\ apc[p] = "inner"
    /\ LET r == load_inner(az_config) IN
       IF r.tag # "Ok"
       THEN /\ aret' = [aret EXCEPT ![p] = r]
            /\ az_credential' = az_credential
       ELSE /\ az_credential' = r.cred
            /\ aret' = [aret EXCEPT ![p] = Ok(r.cred)]
    /\ apc' = [apc EXCEPT ![p] = "done"]
    /\ UNCHANGED << az_config, aop, ahit, areqs >>
    /\ UNCHANGED otherThanAz
    /\ Locks(p, IF load_inner(az_config).tag = "Ok" THEN {az_store_guard} ELSE {}, apc'[p] = "done")

\* Loader::load_with_imds, the cache check and the token request
az_load_with_imds(p) == az_begin(p, "load_with_imds", "imds")

\* What imds_credential::get_access_token can return.
AccessTokenResults == {Ok(Some("bearer1")), Ok(Some("bearer2")), Err("imds", "", "")}

\* Loader::load_with_imds after get_access_token returned
az_imds_response(p, r) ==
    /\ apc[p] = "imds"
    /\ IF r.tag # "Ok"
       THEN /\ aret' = [aret EXCEPT ![p] = r]
            /\ az_credential' = az_credential
       ELSE LET cred == Some(BearerToken(r.cred[1])) IN
            /\ az_credential' = cred
            /\ aret' = [aret EXCEPT ![p] = Ok(cred)]
    /\ apc' = [apc EXCEPT ![p] = "done"]
    /\ UNCHANGED << az_config, aop, ahit, areqs >>
    /\ UNCHANGED otherThanAz
    /\ Locks(p, IF r.tag = "Ok" THEN {az_store_guard} ELSE {}, apc'[p] = "done")

AzStep(p) ==
    \/ az_load(p)
    \/ az_load_inner(p)
    \/ az_load_with_imds(p)
    \/ \E r \in AccessTokenResults : az_imds_response(p, r)

NextAzure == \E p \in Callers : AzStep(p)

InitAzure ==
    /\ IdleAws /\ IdleImds /\ IdleMsi /\ NoGuards
    /\ az_config \in AzConfigs
    /\ NewLoader

SpecAzure == InitAzure /\ [][NextAzure]_vars

\* C10: the static config provider. With a SAS token configured the result
\* is SharedAccessSignature(sas_token), also when name and key are configured;
\* without one and with both name and key it is SharedKey(name, key);
\* otherwise None. It is never an error and issues no request: a load() that
\* missed the cache returns exactly that.
C10_Expected ==
    IF az_config.sas_token = Some("sas")
    THEN Some([kind |-> "SharedAccessSignature", a |-> "sas", b |-> ""])
    ELSE IF az_config.account_name = Some("name") /\ az_config.account_key = Some("key")
    THEN Some([kind |-> "SharedKey", a |-> "name", b |-> "key"])
    ELSE None

C10_StaticConfig ==
    /\ load_via_config(az_config).tag = "Ok"
    /\ load_via_config(az_config).cred = C10_Expected
    /\ \A p \in Callers :
        /\ aop[p] = "load" => areqs[p] = 0
        /\ (aop[p] = "load" /\ apc[p] = "done" /\ ~ahit[p])
           => (aret[p].tag = "Ok" /\ aret[p].cred = C10_Expected)

\* with SAS token, name and key all configured, a load() that missed the
\* cache returned the SharedAccessSignature credential
C10_Witness ==
    /\ az_config = [sas_token |-> Some("sas"), account_name |-> Some("name"),
                    account_key |-> Some("key")]
    /\ aop[1] = "load"
    /\ apc[1] = "done"
    /\ ~ahit[1]
    /\ aret[1] = Ok(Some(SharedAccessSignature("sas")))
    /\ areqs[1] = 0

\* C17: the slot is never emptied. In every interleaving of load and
\* load_with_imds on one Loader, a slot that holds Some(credential) does not
\* hold None afterwards.
C17_NeverEmptied == [][az_credential # None => az_credential' # None]_vars

\* C24 as stated: once the slot holds Some(c) every later call returns
\* exactly c. With a SAS token configured the slot is never written with
\* None, so two calls that were both answered from the slot would have
\* returned the same credential.
C24_OnceStoredForever ==
    (/\ az_config.sas_token # None
     /\ \A p \in Callers : apc[p] = "done" /\ ahit[p])
    => aret[1] = aret[2]

\* C24: the Azure Loader cache is shared by both entry points and has no
\* expiry. A call of load or of load_with_imds that finds Some(c) in the
\* slot at its check returns exactly c with no request and leaves the slot
\* as it is, whichever operation stored c; a call that ends in an error
\* leaves the slot as it is; the slot is replaced only by a call that had
\* found it empty at its own check and was under way meanwhile.
C24_CacheStep ==
    /\ \A p \in Callers :
          /\ ((az_load(p) \/ az_load_with_imds(p)) /\ az_credential # None)
             => /\ aret'[p] = Ok(az_credential)
                /\ areqs'[p] = 0
                /\ ahit'[p]
                /\ apc'[p] = "done"
                /\ az_credential' = az_credential
          /\ (apc[p] # "done" /\ apc'[p] = "done" /\ aret'[p].tag = "Err")
             => az_credential' = az_credential
    /\ az_credential' # az_credential
       => \E p \in Callers :
             /\ apc[p] \in {"inner", "imds"}
             /\ ~ahit[p]
             /\ apc'[p] = "done"
             /\ aret'[p] = Ok(az_credential')

C24_CacheState ==
    \A p \in Callers :
        (apc[p] = "done" /\ ahit[p])
        => /\ aret[p].tag = "Ok"
           /\ aret[p].cred # None
           /\ areqs[p] = 0

C24_SharedCache == [][C24_CacheStep]_vars /\ []C24_CacheState

\* load_with_imds was answered from the slot with the SharedAccessSignature
\* credential that a load had stored, without a request
C24_Witness ==
    /\ aop[1] = "load_with_imds"
    /\ apc[1] = "done"
    /\ ahit[1]
    /\ areqs[1] = 0
    /\ aret[1].cred # None
    /\ aret[1].cred[1].kind = "SharedAccessSignature"
    /\ az_credential = aret[1].cred

\* ====================================================================
\* The three loaders and their locks
\* ====================================================================
\* The CredentialLoader, the IMDSv2Loader and the Azure Loader are separate
\* objects that share no state: a behaviour of SpecLocks runs one of them,
\* with two callers, while the other two stay as constructed. The clock
\* only moves for the CredentialLoader.
NextLocks ==
    \/ /\ IdleImds /\ IdleAz
       /\ NextRace
    \/ /\ IdleAws /\ IdleAz
       /\ \E q \in Callers : ImdsStep(q)
    \/ /\ IdleAws /\ IdleImds
       /\ NextAzure

InitLocks ==
    /\ IdleImds
    /\ IdleMsi
    /\ NoGuards
    /\ \/ InitRaceAws /\ IdleAz
       \/ IdleAws /\ az_config \in AzConfigs /\ NewLoader

SpecLocks == InitLocks /\ [][NextLocks]_vars

\* the caller is inside a ConfigLoader call, a token-file read, a network
\* request or a backoff sleep of the CredentialLoader
AwsInIo(p) == pc[p] \in {"env", "profile", "web", "inner", "read", "call", "sleep"}

\* the caller's PUT or GET to the metadata service is in flight
ImdsInIo(q) == ipc[q] \in {"put", "list", "get"}

\* the caller is inside load_inner or waits for get_access_token
AzInIo(p) == apc[p] \in {"inner", "imds"}

\* C13: no lock held across I/O. In every reachable state where a caller
\* is inside a network request, a token-file read or a backoff sleep (or any
\* other step between its cache check and its store), it holds no guard:
\* not the credential slot's (RwLock of the CredentialLoader, Mutex of the
\* Azure Loader) and not the IMDS session token's. A guard lives only
\* inside the step that copies the value out or replaces it.
C13_NoLockAcrossIo ==
    \A p \in Callers :
        /\ (AwsInIo(p) \/ ImdsInIo(p) \/ AzInIo(p)) => held[p] = {}
        /\ pc[p] = "store" => held[p] = {}
        /\ (pc[p] = "done" /\ ipc[p] \in {"idle", "done"} /\ apc[p] \in {"idle", "done"})
           => held[p] = {}

\* caller 1 sleeps between two attempts while caller 2 has its STS request
\* in flight, after both missed the cache under the read lock
C13_Witness ==
    /\ pc[1] = "sleep"
    /\ pc[2] = "call"
    /\ held = [p \in Callers |-> {}]
    /\ credential = None
====
